---- MODULE Spec2Model ----
(***************************************************************************)
(* Model of tw-stock-tools (src/main.py, src/utils.py): the holding        *)
(* ledger, the dividend reconstruction, the history export/import and the  *)
(* nicegui action handlers of StockInputAction.                            *)
(*                                                                         *)
(* Text is modelled as sequences of character codes, dates as <<y, m, d>>, *)
(* prices as whole numbers (exact doubles), dividend rates in halves       *)
(* (exact doubles: 0.0, 0.5, 1.0), quantities typed in the UI as decimal   *)
(* numbers in ten-thousandths of a lot.                                    *)
(***************************************************************************)
EXTENDS Integers, Sequences, FiniteSets, TLC

VARIABLES record, holding_rows, earning_rows, statistic_rows, tree_obj,
          csv_file, name_cache, price_cache, answered, lax_int, last

vars == <<record, holding_rows, earning_rows, statistic_rows, tree_obj,
          csv_file, name_cache, price_cache, answered, lax_int, last>>

----------------------------------------------------------------------------
(* Bounds of the model *)

\* total number of lots the ledger may hold
MaxLots == 2

----------------------------------------------------------------------------
(* Values standing for a missing value or a raised error *)

\* Python's None where a text is expected, and where a date is expected
None == "None"
NoDate == <<>>

\* the outcome of a conversion to a number: the number, or the error raised
Value(v) == [ok |-> TRUE, v |-> v]
Raised == [ok |-> FALSE, v |-> 0]

----------------------------------------------------------------------------
(* Text: character codes, decimal numbers, dates *)

Dash == 45
Dot == 46
Digit(n) == 48 + n
Letter == 120

IsDigit(c) == c >= 48 /\ c <= 57

RECURSIVE NatStr(_)
NatStr(n) == IF n < 10 THEN <<Digit(n)>>
             ELSE Append(NatStr(n \div 10), Digit(n % 10))

\* str(n) of an int
DecStr(n) == IF n < 0 THEN <<Dash>> \o NatStr(-n) ELSE NatStr(n)

RECURSIVE DigitsValue(_)
DigitsValue(s) == IF s = <<>> THEN 0
                  ELSE 10 * DigitsValue(SubSeq(s, 1, Len(s) - 1))
                       + (s[Len(s)] - 48)

AllDigits(s) == Len(s) > 0 /\ \A i \in 1..Len(s) : IsDigit(s[i])

\* int(text), raising ValueError
ParseInt(s) ==
    IF AllDigits(s) THEN Value(DigitsValue(s))
    ELSE IF Len(s) > 1 /\ s[1] = Dash /\ AllDigits(Tail(s))
         THEN Value(-DigitsValue(Tail(s)))
         ELSE Raised

\* str(x) of a double holding a whole number: "10.0"
FloatStr(p) == DecStr(p) \o <<Dot, Digit(0)>>

\* float(text) for the texts of the model, raising ValueError: digits,
\* optionally followed by ".0"
ParseFloat(s) ==
    IF AllDigits(s) THEN Value(DigitsValue(s))
    ELSE IF Len(s) > 2 /\ s[Len(s) - 1] = Dot /\ s[Len(s)] = Digit(0)
            /\ AllDigits(SubSeq(s, 1, Len(s) - 2))
         THEN Value(DigitsValue(SubSeq(s, 1, Len(s) - 2)))
         ELSE Raised

\* date.strftime("%Y-%m-%d") / date.isoformat()
Strftime(d) ==
    << Digit(d[1] \div 1000), Digit((d[1] \div 100) % 10),
       Digit((d[1] \div 10) % 10), Digit(d[1] % 10), Dash,
       Digit(d[2] \div 10), Digit(d[2] % 10), Dash,
       Digit(d[3] \div 10), Digit(d[3] % 10) >>

IsDateStr(s) ==
    /\ Len(s) = 10
    /\ s[5] = Dash /\ s[8] = Dash
    /\ \A i \in {1, 2, 3, 4, 6, 7, 9, 10} : IsDigit(s[i])
    /\ DigitsValue(SubSeq(s, 6, 7)) \in 1..12
    /\ DigitsValue(SubSeq(s, 9, 10)) \in 1..31

\* pydantic's coercion of "YYYY-MM-DD" to a date; NoDate stands for the
\* ValidationError
ParseDate(s) ==
    IF IsDateStr(s)
    THEN << DigitsValue(SubSeq(s, 1, 4)), DigitsValue(SubSeq(s, 6, 7)),
            DigitsValue(SubSeq(s, 9, 10)) >>
    ELSE NoDate

\* Python's str < str: lexicographic on the character codes
StrLt(a, b) ==
    \E i \in 1..Len(b) :
        /\ \A j \in 1..(i - 1) : j <= Len(a) /\ a[j] = b[j]
        /\ (i > Len(a) \/ a[i] < b[i])

\* Python's date < date
DateLt(d1, d2) ==
    \/ d1[1] < d2[1]
    \/ d1[1] = d2[1] /\ d1[2] < d2[2]
    \/ d1[1] = d2[1] /\ d1[2] = d2[2] /\ d1[3] < d2[3]

\* int(x): truncation toward zero of the rational n / d, d > 0
Trunc(n, d) == IF n >= 0 THEN n \div d ELSE -((-n) \div d)

----------------------------------------------------------------------------
(* Doubles of the quantity pipeline                                       *)
(*                                                                         *)
(* A quantity typed as k / 10000 lots is the double nearest to it.  Its    *)
(* product with 1000 is a double again, kept here as its truncation `ip`   *)
(* and whether it is a whole number.  In IEEE-754 binary64:                *)
(*   n * 1000 is exact for a whole n;  0.5 * 1000 = 500.0;                 *)
(*   1.0015 * 1000 = 1001.5;                                               *)
(*   (m / 1000) * 1000 = m for every whole m in 0..2001 except the odd m   *)
(*   in 1001..1023, where it is m - 1.1e-13 (1.001 * 1000 =                *)
(*   1000.9999999999999); the same holds of -m.                            *)

Abs(n) == IF n < 0 THEN -n ELSE n

\* the double m / 1000 times 1000 falls short of m in magnitude
FallsShort(m) == Abs(m) >= 1001 /\ Abs(m) <= 1023 /\ Abs(m) % 2 = 1

\* quantity * 1000 for quantity = the double nearest k / 10000
Times1000(k) ==
    IF Abs(k) % 10 = 0
    THEN LET m == Trunc(k, 10)
         IN IF FallsShort(m)
            THEN [ip |-> IF m > 0 THEN m - 1 ELSE m + 1, whole |-> FALSE]
            ELSE [ip |-> m, whole |-> TRUE]
    ELSE [ip |-> Trunc(k, 10), whole |-> FALSE]

\* pydantic's coercion of a double to an int field: a whole double is taken
\* as it is; a double with a fractional part is truncated by int() where the
\* validation is lax (pydantic 1.x) and rejected where it is strict
\* (pydantic 2.x), raising ValidationError.
IntField(x, lax) == IF x.whole \/ lax THEN Value(x.ip) ELSE Raised

\* int(row["quantity"]) / 1000: the double nearest q / 1000
Div1000(q) == 10 * q

----------------------------------------------------------------------------
(* The market data provider (FinMind) behind src/utils.py *)

\* taiwan_stock_info(): the stock_name of every stock_id the provider knows
AllStockInfo == [x \in {"2330", "0050"} |->
                    IF x = "2330" THEN "TSMC" ELSE "Yuanta50"]

Ids == DOMAIN AllStockInfo

\* a stock number the provider does not know
UnknownId == "9999"

\* taiwan_stock_daily(...)["close"].iloc[-1] of each stock
LatestPrice == [x \in Ids |-> IF x = "2330" THEN 12 ELSE 10]

\* datetime.now()
Today == <<2021, 1, 1>>

\* the provider's services; each handler runs with `dn` naming the service
\* that fails while it runs, or Up, or Moved: every service answers and the
\* closing prices stand one above LatestPrice
Services == {<<"info">>} \cup ({"dividend", "price"} \X Ids)
Up == <<"up">>
Moved == <<"moved">>

\* the close the provider reports while the handler runs
Close(stock_no, dn) ==
    IF dn = Moved THEN LatestPrice[stock_no] + 1 ELSE LatestPrice[stock_no]

\* the queries the memoized functions put to the provider: the stock table
\* and the daily prices of each stock; `answered` counts the answers given
StockInfoQuery == "taiwan_stock_info"
Queries == {StockInfoQuery} \cup Ids
Answer(log, q) == [log EXCEPT ![q] = @ + 1]

DivRow(d, cash, stock) ==
    [CashExDividendTradingDate |-> d,
     CashEarningsDistribution |-> cash,
     StockEarningsDistribution |-> stock]

\* dividend histories the provider may hold for a stock; rates in halves
\* (2 is 1.0); a row without a cash ex-dividend date carries the empty text
HistA == << DivRow(Strftime(<<2020, 1, 1>>), 2, 0),
            DivRow(Strftime(<<2020, 6, 1>>), 2, 2),
            DivRow(Strftime(<<2020, 9, 30>>), 1, 0) >>

HistB == << DivRow(Strftime(<<2020, 9, 30>>), 0, 2),
            DivRow(Strftime(<<2020, 3, 15>>), 3, 2),
            DivRow(Strftime(<<2021, 1, 1>>), 2, 2),
            DivRow(<<>>, 0, 2) >>

\* taiwan_stock_dividend of each stock
DividendHistory == [x \in Ids |-> IF x = "2330" THEN HistA ELSE HistB]

\* taiwan_stock_dividend(stock_id, start_date): the rows from start_date on
RowsFrom(hist, start) ==
    SelectSeq(hist, LAMBDA r : ~StrLt(r.CashExDividendTradingDate, start))

\* utils.get_history_data_by_stock_no(stock_no, from_data)
get_history_data_by_stock_no(stock_no, from_data, dn) ==
    IF dn = <<"dividend", stock_no>>
    THEN [err |-> "GatewayUnavailable", df |-> <<>>]
    ELSE IF from_data = NoDate
         THEN [err |-> "AttributeError", df |-> <<>>]
         ELSE [err |-> "none",
               df |-> RowsFrom(DividendHistory[stock_no],
                               Strftime(from_data))]

\* an lru_cache(maxsize=None) is the set of <<argument, result>> pairs held
Cached(cache, key) == \E e \in cache : e[1] = key
CacheGet(cache, key) == (CHOOSE e \in cache : e[1] = key)[2]

\* utils.get_all_stock_info() under lru_cache: nc.info tells whether the
\* cache holds the table, nc.answered is the provider's count of answers
get_all_stock_info(nc, dn) ==
    IF nc.info THEN [err |-> "none", nc |-> nc]
    ELSE IF dn = <<"info">> THEN [err |-> "GatewayUnavailable", nc |-> nc]
         ELSE [err |-> "none",
               nc |-> [nc EXCEPT !.info = TRUE,
                                 !.answered = Answer(@, StockInfoQuery)]]

\* utils.get_stock_name_by_stock_no(stock_no) over utils.get_all_stock_info(),
\* both under lru_cache: nc.names is the cache of the former
get_stock_name_by_stock_no(stock_no, nc, dn) ==
    IF Cached(nc.names, stock_no)
    THEN [err |-> "none", name |-> CacheGet(nc.names, stock_no), nc |-> nc]
    ELSE LET Named(all) ==
                 IF all.err # "none"
                 THEN [err |-> all.err, name |-> None, nc |-> all.nc]
                 ELSE IF stock_no \notin Ids
                      THEN [err |-> "IndexError", name |-> None,
                            nc |-> all.nc]
                      ELSE [err |-> "none", name |-> AllStockInfo[stock_no],
                            nc |-> [all.nc EXCEPT !.names = @ \cup
                                       {<<stock_no, AllStockInfo[stock_no]>>}]]
         IN Named(get_all_stock_info(nc, dn))

\* the price lookup without its lru_cache: every call asks the provider
get_latest_stock_price_by_stock_no_Uncached(stock_no, pc, dn) ==
    IF dn = <<"price", stock_no>>
    THEN [err |-> "GatewayUnavailable", price |-> 0, pc |-> pc]
    ELSE [err |-> "none", price |-> Close(stock_no, dn),
          pc |-> [cache |-> {e \in pc.cache : e[1] # stock_no} \cup
                                {<<stock_no, Close(stock_no, dn)>>},
                  answered |-> Answer(pc.answered, stock_no)]]

\* utils.get_latest_stock_price_by_stock_no(stock_no) under lru_cache:
\* pc.cache is the cache, pc.answered the provider's count of answers
get_latest_stock_price_by_stock_no(stock_no, pc, dn) ==
    IF Cached(pc.cache, stock_no)
    THEN [err |-> "none", price |-> CacheGet(pc.cache, stock_no), pc |-> pc]
    ELSE IF dn = <<"price", stock_no>>
         THEN [err |-> "GatewayUnavailable", price |-> 0, pc |-> pc]
         ELSE [err |-> "none", price |-> Close(stock_no, dn),
               pc |-> [cache |-> pc.cache \cup
                                     {<<stock_no, Close(stock_no, dn)>>},
                       answered |-> Answer(pc.answered, stock_no)]]

----------------------------------------------------------------------------
(* The holding ledger: StockHoldingData and UserRecord *)

StockHolding(quantity, avg_price) ==
    [quantity |-> quantity, avg_price |-> avg_price]

StockInfo(holding, holding_date) ==
    [holding |-> holding, holding_date |-> holding_date]

EarningEvent(cal_quantity, cash_dividend, stock_dividend, dividend_date) ==
    [cal_quantity |-> cal_quantity, cash_dividend |-> cash_dividend,
     stock_dividend |-> stock_dividend, dividend_date |-> dividend_date]

UserRecord(stock_no, stock_name) ==
    [buying_histories |-> <<>>, current_holding |-> StockHolding(0, 0),
     earning_events |-> <<>>, cash_earning |-> 0,
     stock_no |-> stock_no, stock_name |-> stock_name]

RECURSIVE SumSeq(_)
SumSeq(s) == IF s = <<>> THEN 0 ELSE Head(s) + SumSeq(Tail(s))

RECURSIVE Flatten(_)
Flatten(ss) == IF ss = <<>> THEN <<>> ELSE Head(ss) \o Flatten(Tail(ss))

total_buying_quantity(r) ==
    SumSeq([i \in 1..Len(r.buying_histories) |->
               r.buying_histories[i].holding.quantity])

total_buying_price(r) ==
    SumSeq([i \in 1..Len(r.buying_histories) |->
               r.buying_histories[i].holding.quantity
               * r.buying_histories[i].holding.avg_price])

total_current_price(r) ==
    r.current_holding.avg_price * r.current_holding.quantity

total_earning(r) ==
    r.cash_earning + total_current_price(r) - total_buying_price(r)

\* the position of stock_no in the dict `record`, 0 when it is not a key
KeyIndex(rec, stock_no) ==
    IF \E i \in 1..Len(rec) : rec[i].stock_no = stock_no
    THEN CHOOSE i \in 1..Len(rec) : rec[i].stock_no = stock_no
    ELSE 0

TotalLots(rec) ==
    SumSeq([i \in 1..Len(rec) |-> Len(rec[i].buying_histories)])

\* StockHoldingData.append_holding(stock_no, hold_date, quantity, avg_price):
\* hold_date is a text, quantity a number in ten-thousandths of a lot,
\* avg_price a whole number
append_holding(rec, nc, stock_no, hold_date, quantity, avg_price, dn, lax) ==
    LET known == KeyIndex(rec, stock_no) # 0
        nm == get_stock_name_by_stock_no(stock_no, nc, dn)
        rec1 == IF known THEN rec
                ELSE Append(rec, UserRecord(stock_no, nm.name))
        nc1 == IF known THEN nc ELSE nm.nc
        q == IntField(Times1000(quantity), lax)
        d == ParseDate(hold_date)
        i == KeyIndex(rec1, stock_no)
    IN IF ~known /\ nm.err # "none"
       THEN [err |-> nm.err, record |-> rec, nc |-> nm.nc]
       ELSE IF ~q.ok \/ d = NoDate
            THEN [err |-> "ValidationError", record |-> rec1, nc |-> nc1]
            ELSE [err |-> "none", nc |-> nc1,
                  record |->
                      [rec1 EXCEPT ![i].buying_histories =
                          Append(@, StockInfo(StockHolding(q.v, avg_price), d))]]

\* StockHoldingData.gen_holding_table_rows()
gen_holding_table_rows(rec) ==
    Flatten([i \in 1..Len(rec) |->
        [j \in 1..Len(rec[i].buying_histories) |->
            [stock_no |-> rec[i].stock_no,
             stock_name |-> rec[i].stock_name,
             hold_date |-> rec[i].buying_histories[j].holding_date,
             quantity |-> rec[i].buying_histories[j].holding.quantity,
             avg_price |-> rec[i].buying_histories[j].holding.avg_price]]])

----------------------------------------------------------------------------
(* The earning reconstruction of StockInputAction *)

RECURSIVE EarliestScan(_, _, _)
EarliestScan(histories, i, earliest_date) ==
    IF i > Len(histories) THEN earliest_date
    ELSE IF DateLt(histories[i].holding_date, earliest_date)
         THEN EarliestScan(histories, i + 1, histories[i].holding_date)
         ELSE EarliestScan(histories, i + 1, earliest_date)

\* StockInputAction._find_earliest_date(histories); NoDate is the bare return
find_earliest_date(histories) ==
    IF Len(histories) = 0 THEN NoDate
    ELSE EarliestScan(histories, 1, histories[1].holding_date)

\* x put behind every element of the sorted s that is not later than x
InsertByDate(s, x) ==
    LET k == Cardinality({i \in 1..Len(s) :
                 ~DateLt(x.holding_date, s[i].holding_date)})
    IN SubSeq(s, 1, k) \o <<x>> \o SubSeq(s, k + 1, Len(s))

RECURSIVE sorted_by_holding_date(_)
\* sorted(buying_histories, key=lambda x: x.holding_date): a stable sort
sorted_by_holding_date(s) ==
    IF s = <<>> THEN <<>>
    ELSE InsertByDate(sorted_by_holding_date(SubSeq(s, 1, Len(s) - 1)),
                      s[Len(s)])

\* the row filter with the window's start date let in
InWindow_StartIncluded(row, dividend_start_date, dividend_end_date) ==
    /\ ~StrLt(row.CashExDividendTradingDate, dividend_start_date)
    /\ StrLt(row.CashExDividendTradingDate, dividend_end_date)

\* the row filter of apply_dividend: both comparisons are strict and on texts
InWindow(row, dividend_start_date, dividend_end_date) ==
    /\ StrLt(dividend_start_date, row.CashExDividendTradingDate)
    /\ StrLt(row.CashExDividendTradingDate, dividend_end_date)

\* the loop body with before_quantity read after the stock dividend is added
ApplyRow_LogsAfter(r, row) ==
    LET before_quantity == r.current_holding.quantity
        cash == IF row.CashEarningsDistribution > 0
                THEN r.cash_earning
                     + Trunc(row.CashEarningsDistribution * before_quantity, 2)
                ELSE r.cash_earning
        qty == IF row.StockEarningsDistribution > 0
               THEN before_quantity
                    + Trunc(row.StockEarningsDistribution * before_quantity, 20)
               ELSE before_quantity
    IN [r EXCEPT !.cash_earning = cash,
                 !.current_holding.quantity = qty,
                 !.earning_events =
                     Append(@, EarningEvent(qty,
                                   row.CashEarningsDistribution,
                                   row.StockEarningsDistribution,
                                   ParseDate(row.CashExDividendTradingDate)))]

\* one pass of the loop over apply_dividend.iterrows(); rates are in halves,
\* so int(rate * q) is Trunc(h * q, 2) and int(rate * q * 0.1) is
\* Trunc(h * q, 20)
ApplyRow(r, row) ==
    LET before_quantity == r.current_holding.quantity
        cash == IF row.CashEarningsDistribution > 0
                THEN r.cash_earning
                     + Trunc(row.CashEarningsDistribution * before_quantity, 2)
                ELSE r.cash_earning
        qty == IF row.StockEarningsDistribution > 0
               THEN before_quantity
                    + Trunc(row.StockEarningsDistribution * before_quantity, 20)
               ELSE before_quantity
    IN [r EXCEPT !.cash_earning = cash,
                 !.current_holding.quantity = qty,
                 !.earning_events =
                     Append(@, EarningEvent(before_quantity,
                                   row.CashEarningsDistribution,
                                   row.StockEarningsDistribution,
                                   ParseDate(row.CashExDividendTradingDate)))]

RECURSIVE ApplyRows(_, _)
ApplyRows(r, rows) ==
    IF rows = <<>> THEN r ELSE ApplyRows(ApplyRow(r, Head(rows)), Tail(rows))

RECURSIVE WalkLots(_, _, _, _, _, _)
\* the loop over enumerate(sorted_buying_histories), from position idx on
WalkLots(r, sorted, idx, dividend_df, pc, dn) ==
    IF idx > Len(sorted) THEN [err |-> "none", r |-> r, pc |-> pc]
    ELSE
      LET history == sorted[idx]
          r1 == [r EXCEPT !.current_holding.quantity =
                              @ + history.holding.quantity]
          dividend_start_date == Strftime(history.holding_date)
          dividend_end_date ==
              IF idx = Len(sorted) THEN Strftime(Today)
              ELSE Strftime(sorted[idx + 1].holding_date)
          apply_dividend ==
              SelectSeq(dividend_df,
                  LAMBDA row : InWindow(row, dividend_start_date,
                                        dividend_end_date))
          Priced(r2, p) ==
              IF p.err # "none" THEN [err |-> p.err, r |-> r2, pc |-> p.pc]
              ELSE WalkLots([r2 EXCEPT !.current_holding.avg_price = p.price],
                            sorted, idx + 1, dividend_df, p.pc, dn)
      IN Priced(ApplyRows(r1, apply_dividend),
                get_latest_stock_price_by_stock_no(r.stock_no, pc, dn))

\* StockInputAction.calculate_earning_by_user_record(stock_no, user_record)
calculate_earning_by_user_record(r, pc, dn) ==
    LET earliest_holding_date == find_earliest_date(r.buying_histories)
        Replay(g) ==
            IF g.err # "none" THEN [err |-> g.err, r |-> r, pc |-> pc]
            ELSE WalkLots(r, sorted_by_holding_date(r.buying_histories), 1,
                          g.df, pc, dn)
    IN Replay(get_history_data_by_stock_no(r.stock_no, earliest_holding_date,
                                           dn))

\* the reset with the event log left as it is
init_current_holding_KeepsEvents(rec) ==
    [i \in 1..Len(rec) |->
        [rec[i] EXCEPT !.current_holding = StockHolding(0, 0),
                       !.cash_earning = 0]]

\* no reset before the pass
init_current_holding_Skipped(rec) == rec

\* StockInputAction.init_current_holding()
init_current_holding(rec) ==
    [i \in 1..Len(rec) |->
        [rec[i] EXCEPT !.current_holding = StockHolding(0, 0),
                       !.earning_events = <<>>,
                       !.cash_earning = 0]]

RECURSIVE ReconstructFrom(_, _, _, _)
\* the loop of calculate_earning over record.items(), from position i on;
\* `at` is the position whose reconstruction raised
ReconstructFrom(rec, i, pc, dn) ==
    IF i > Len(rec) THEN [err |-> "none", at |-> 0, record |-> rec, pc |-> pc]
    ELSE LET Stored(c) ==
                 IF c.err # "none"
                 THEN [err |-> c.err, at |-> i, pc |-> c.pc,
                       record |-> [rec EXCEPT ![i] = c.r]]
                 ELSE ReconstructFrom([rec EXCEPT ![i] = c.r], i + 1, c.pc,
                                      dn)
         IN Stored(calculate_earning_by_user_record(rec[i], pc, dn))

----------------------------------------------------------------------------
(* The derived tables *)

Percent == 37

\* the quotient n / d, d # 0, rounded to the nearest whole number, ties to
\* even, as its sign and magnitude (0.0 over a negative number is -0.0)
RoundDiv(n, d) ==
    LET q == Abs(n) \div Abs(d)
        r == Abs(n) % Abs(d)
        up == 2 * r > Abs(d) \/ (2 * r = Abs(d) /\ q % 2 = 1)
    IN [neg |-> (n < 0) # (d < 0), mag |-> IF up THEN q + 1 ELSE q]

\* f"{x:.2f}" of the number x.mag / 100 with the sign x.neg
Fmt2(x) ==
    (IF x.neg THEN <<Dash>> ELSE <<>>)
    \o DecStr(x.mag \div 100)
    \o <<Dot, Digit((x.mag \div 10) % 10), Digit(x.mag % 10)>>

\* StockHoldingData.gen_earning_table_rows()
gen_earning_table_rows(rec) ==
    [i \in 1..Len(rec) |->
        [stock_no |-> rec[i].stock_no,
         stock_name |-> rec[i].stock_name,
         quantity |-> rec[i].current_holding.quantity,
         current_price |-> rec[i].current_holding.avg_price,
         total_earning |-> Fmt2(RoundDiv(100 * total_earning(rec[i]), 1)),
         cash_earning |-> rec[i].cash_earning,
         stock_dividend |-> rec[i].current_holding.quantity
                            - total_buying_quantity(rec[i])]]


\* StockHoldingData.gen_statistic_table_rows()
gen_statistic_table_rows(rec) ==
    LET total_value ==
            SumSeq([i \in 1..Len(rec) |-> total_current_price(rec[i])])
        total_earning_sum ==
            SumSeq([i \in 1..Len(rec) |-> total_earning(rec[i])])
        total_cash_dividend ==
            SumSeq([i \in 1..Len(rec) |-> rec[i].cash_earning])
        total_buying_price_sum ==
            SumSeq([i \in 1..Len(rec) |-> total_buying_price(rec[i])])
    IN IF total_buying_price_sum = 0
       THEN [err |-> "ZeroDivisionError", rows |-> <<>>]
       ELSE [err |-> "none",
             rows |-> << [total_value |-> Fmt2(RoundDiv(100 * total_value, 1)),
                          total_earning |->
                              Fmt2(RoundDiv(100 * total_earning_sum, 1)),
                          total_cash_dividend |->
                              Fmt2(RoundDiv(100 * total_cash_dividend, 1)),
                          total_earning_rate |->
                              Append(Fmt2(RoundDiv(10000 * total_earning_sum,
                                                   total_buying_price_sum)),
                                     Percent)] >>]

\* StockInputAction.gen_history_tree(record)
gen_history_tree(rec) ==
    [i \in 1..Len(rec) |->
        [id |-> <<rec[i].stock_no, rec[i].stock_name>>,
         children |->
            [j \in 1..Len(rec[i].earning_events) |->
                [dividend_date |->
                     Strftime(rec[i].earning_events[j].dividend_date),
                 cal_quantity |-> rec[i].earning_events[j].cal_quantity,
                 stock_dividend |-> rec[i].earning_events[j].stock_dividend,
                 cash_dividend |-> rec[i].earning_events[j].cash_dividend]]]]

----------------------------------------------------------------------------
(* History export and import *)

CsvRow(stock_no, stock_name, hold_date, quantity, avg_price) ==
    [stock_no |-> stock_no, stock_name |-> stock_name,
     hold_date |-> hold_date, quantity |-> quantity, avg_price |-> avg_price]

\* StockInputAction.write_history(): the rows of holding_history.csv
write_history(rec) ==
    Flatten([i \in 1..Len(rec) |->
        [j \in 1..Len(rec[i].buying_histories) |->
            CsvRow(rec[i].stock_no, rec[i].stock_name,
                   Strftime(rec[i].buying_histories[j].holding_date),
                   DecStr(rec[i].buying_histories[j].holding.quantity),
                   FloatStr(rec[i].buying_histories[j].holding.avg_price))]])

RECURSIVE LoadRows(_, _, _, _, _, _)
\* the loop of load_history over df.iterrows()
LoadRows(rec, nc, rows, content, dn, lax) ==
    IF content = <<>>
    THEN [err |-> "none", record |-> rec, nc |-> nc, rows |-> rows]
    ELSE LET row == Head(content)
             q == ParseInt(row.quantity)
             p == ParseFloat(row.avg_price)
             a == append_holding(rec, nc, row.stock_no, row.hold_date,
                                 Div1000(q.v), p.v, dn, lax)
         IN IF ~q.ok \/ ~p.ok
            THEN [err |-> "ValueError", record |-> rec, nc |-> nc,
                  rows |-> rows]
            ELSE IF a.err # "none"
                 THEN [err |-> a.err, record |-> a.record, nc |-> a.nc,
                       rows |-> rows]
                 ELSE LoadRows(a.record, a.nc,
                               gen_holding_table_rows(a.record),
                               Tail(content), dn, lax)

----------------------------------------------------------------------------
(* What the user can enter *)

\* what is in the form when the confirm button is pressed: a stock number,
\* the date picker's text (empty for a blank hold_date), the number of lots
\* in ten-thousandths (1, 1.001, 1.0015, -1) and the average price
Form(stock_no, hold_date, quantity, avg_price) ==
    [stock_no |-> stock_no, hold_date |-> hold_date, quantity |-> quantity,
     avg_price |-> avg_price]

FormInputs ==
    { Form("2330", Strftime(<<2020, 1, 1>>), 10000, 10),
      Form("2330", Strftime(<<2020, 6, 1>>), 10000, 10),
      Form("2330", Strftime(<<2020, 1, 1>>), 10010, 10),
      Form("2330", Strftime(<<2020, 6, 1>>), 10015, 10),
      Form("2330", Strftime(<<2020, 6, 1>>), -10000, 10),
      Form("0050", Strftime(<<2020, 6, 1>>), 10000, 10),
      Form("0050", Strftime(<<2020, 1, 1>>), 10000, 0),
      Form("0050", <<>>, 10000, 10),
      Form(UnknownId, Strftime(<<2020, 1, 1>>), 10000, 10) }

\* uploads made by hand: a second row whose quantity is no number, a row
\* whose date is no date, a row of 1001 shares
FileBadQuantity ==
    << CsvRow("2330", "TSMC", Strftime(<<2020, 1, 1>>), DecStr(1000),
              FloatStr(10)),
       CsvRow("0050", "Yuanta50", Strftime(<<2020, 1, 1>>), <<Letter>>,
              FloatStr(10)) >>

FileBadDate ==
    << CsvRow("0050", "Yuanta50", <<Letter>>, DecStr(1000), FloatStr(10)) >>

FileOddLot ==
    << CsvRow("2330", "TSMC", Strftime(<<2020, 6, 1>>), DecStr(1001),
              FloatStr(10)) >>

SampleFiles == {FileBadQuantity, FileBadDate, FileOddLot}

----------------------------------------------------------------------------
(* The state machine: one action per handler of StockInputAction *)

Outcome(op, err, at) == [op |-> op, err |-> err, at |-> at]

\* the two sides of the memoized lookups as the functions read and leave
\* them: the caches with the provider's count of answers
NameLookups(names, log) ==
    [info |-> names.info, names |-> names.names, answered |-> log]

PriceLookups(cache, log) == [cache |-> cache, answered |-> log]

Init ==
    /\ record = <<>>
    /\ holding_rows = <<>>
    /\ earning_rows = <<>>
    /\ statistic_rows = <<>>
    /\ tree_obj = <<>>
    /\ csv_file = <<>>
    /\ name_cache = [info |-> FALSE, names |-> {}]
    /\ price_cache = {}
    /\ answered = [q \in Queries |-> 0]
    /\ lax_int \in BOOLEAN
    /\ last = Outcome("start", "none", 0)

\* StockInputAction.add_stock: the confirm button
add_stock(stock_no, hold_date, quantity, avg_price, dn) ==
    /\ TotalLots(record) < MaxLots
    /\ LET a == append_holding(record, NameLookups(name_cache, answered),
                               stock_no, hold_date, quantity, avg_price, dn,
                               lax_int)
       IN /\ record' = a.record
          /\ name_cache' = [info |-> a.nc.info, names |-> a.nc.names]
          /\ answered' = a.nc.answered
          /\ last' = Outcome("add_stock", a.err, 0)
          /\ IF a.err = "none"
             THEN /\ holding_rows' = gen_holding_table_rows(a.record)
                  /\ csv_file' = write_history(a.record)
             ELSE UNCHANGED <<holding_rows, csv_file>>
    /\ UNCHANGED <<earning_rows, statistic_rows, tree_obj, price_cache,
                   lax_int>>

\* what calculate_earning does to the state, as a function of the state
CalculateEarningResult(rec, pc, dn, erows, srows, tree) ==
    LET Tables(c, st) ==
            IF c.err # "none"
            THEN [err |-> c.err, at |-> c.at, record |-> c.record,
                  pc |-> c.pc, earning_rows |-> erows,
                  statistic_rows |-> srows, tree_obj |-> tree]
            ELSE IF st.err # "none"
                 THEN [err |-> st.err, at |-> 0, record |-> c.record,
                       pc |-> c.pc,
                       earning_rows |-> gen_earning_table_rows(c.record),
                       statistic_rows |-> srows, tree_obj |-> tree]
                 ELSE [err |-> "none", at |-> 0, record |-> c.record,
                       pc |-> c.pc,
                       earning_rows |-> gen_earning_table_rows(c.record),
                       statistic_rows |-> st.rows,
                       tree_obj |-> gen_history_tree(c.record)]
        Rebuild(c) == Tables(c, gen_statistic_table_rows(c.record))
    IN Rebuild(ReconstructFrom(init_current_holding(rec), 1, pc, dn))

\* StockInputAction.calculate_earning: the recalculate button
calculate_earning(dn) ==
    /\ LET Shown(c) ==
               /\ record' = c.record
               /\ price_cache' = c.pc.cache
               /\ answered' = c.pc.answered
               /\ earning_rows' = c.earning_rows
               /\ statistic_rows' = c.statistic_rows
               /\ tree_obj' = c.tree_obj
               /\ last' = Outcome("calculate_earning", c.err, c.at)
       IN Shown(CalculateEarningResult(record,
                                       PriceLookups(price_cache, answered),
                                       dn, earning_rows, statistic_rows,
                                       tree_obj))
    /\ UNCHANGED <<holding_rows, csv_file, name_cache, lax_int>>

\* StockInputAction.load_history: an upload, of the file write_history left
\* or of another one
load_history(content, dn) ==
    /\ TotalLots(record) + Len(content) <= MaxLots
    /\ LET l == LoadRows(record, NameLookups(name_cache, answered),
                         holding_rows, content, dn, lax_int)
       IN /\ record' = l.record
          /\ name_cache' = [info |-> l.nc.info, names |-> l.nc.names]
          /\ answered' = l.nc.answered
          /\ holding_rows' = l.rows
          /\ last' = Outcome("load_history", l.err, 0)
    /\ UNCHANGED <<earning_rows, statistic_rows, tree_obj, csv_file,
                   price_cache, lax_int>>

\* StockInputAction.init_data: the reset button
init_data ==
    /\ record' = <<>>
    /\ earning_rows' = <<>>
    /\ holding_rows' = <<>>
    /\ statistic_rows' = <<>>
    /\ tree_obj' = <<>>
    /\ last' = Outcome("init_data", "none", 0)
    /\ UNCHANGED <<csv_file, name_cache, price_cache, answered, lax_int>>

Next ==
    \/ \E f \in FormInputs, dn \in {Up, <<"info">>} :
          add_stock(f.stock_no, f.hold_date, f.quantity, f.avg_price, dn)
    \/ \E dn \in {Up, Moved, <<"dividend", "0050">>, <<"price", "2330">>} :
          calculate_earning(dn)
    \/ \E content \in {csv_file} \cup SampleFiles, dn \in {Up, <<"info">>} :
          load_history(content, dn)
    \/ init_data

Spec == Init /\ [][Next]_vars

----------------------------------------------------------------------------
(* Vocabulary of the properties *)

\* the failures of the provider a recalculation is run against
CalcFailures == {Up, Moved, <<"dividend", "0050">>, <<"price", "2330">>}

\* the last action was a recalculation and it went through record[i] whole
Reconstructed(i) ==
    /\ last.op = "calculate_earning"
    /\ i \in 1..Len(record)
    /\ (last.err \in {"none", "ZeroDivisionError"} \/ last.at > i)

\* the shares and the cash one logged distribution brought
StockIncrement(e) ==
    IF e.stock_dividend > 0
    THEN Trunc(e.stock_dividend * e.cal_quantity, 20) ELSE 0

CashIncrement(e) ==
    IF e.cash_dividend > 0
    THEN Trunc(e.cash_dividend * e.cal_quantity, 2) ELSE 0

\* the shares of the lots of r bought before the day d
BoughtBefore(r, d) ==
    SumSeq([k \in 1..Len(r.buying_histories) |->
               IF DateLt(r.buying_histories[k].holding_date, d)
               THEN r.buying_histories[k].holding.quantity ELSE 0])

StockIncrements(r, n) ==
    SumSeq([k \in 1..n |-> StockIncrement(r.earning_events[k])])

CashIncrements(r, n) ==
    SumSeq([k \in 1..n |-> CashIncrement(r.earning_events[k])])

----------------------------------------------------------------------------
(* C1 *)

\* C1: after a reconstruction every logged distribution carries the running
\* quantity held just before it (the lots bought before its date plus the
\* stock increments of the distributions logged before it), the cumulative
\* cash is the sum of trunc(cash_rate * quantity_before), the holding is the
\* lots plus the sum of trunc(stock_rate * quantity_before * 0.1), and a
\* single lot of 1000 shares with one distribution of stock_rate 1.0 ends
\* with 1100 shares.
C1_DistributionsCompound ==
    \A i \in 1..Len(record) :
        Reconstructed(i) =>
            LET r == record[i]
                n == Len(r.earning_events)
                paying == {k \in 1..n : r.earning_events[k].stock_dividend > 0}
            IN /\ \A j \in 1..n :
                      r.earning_events[j].cal_quantity =
                          BoughtBefore(r, r.earning_events[j].dividend_date)
                          + StockIncrements(r, j - 1)
               /\ r.cash_earning = CashIncrements(r, n)
               /\ r.current_holding.quantity =
                      total_buying_quantity(r) + StockIncrements(r, n)
               /\ ( /\ Len(r.buying_histories) = 1
                    /\ r.buying_histories[1].holding.quantity = 1000
                    /\ Cardinality(paying) = 1
                    /\ \A k \in paying : r.earning_events[k].stock_dividend = 2 )
                  => r.current_holding.quantity = 1100

\* a reconstructed stock whose second distribution was applied to a quantity
\* that holds the stock dividend of the first
C1_Witness ==
    \E i \in 1..Len(record) :
        /\ Reconstructed(i)
        /\ Len(record[i].earning_events) >= 2
        /\ record[i].earning_events[1].stock_dividend > 0
        /\ record[i].earning_events[1].cal_quantity = 1000
        /\ record[i].earning_events[2].cal_quantity = 1100
        /\ record[i].cash_earning > 0

----------------------------------------------------------------------------
(* C2 *)

\* C2: after a reconstruction no logged distribution of a stock is dated on
\* the purchase date of one of its lots: a distribution dated on a lot's
\* purchase date is not applied in that lot's window.
C2_StartDateExcluded ==
    \A i \in 1..Len(record) :
        Reconstructed(i) =>
            \A k \in 1..Len(record[i].buying_histories) :
                \A j \in 1..Len(record[i].earning_events) :
                    record[i].earning_events[j].dividend_date
                        # record[i].buying_histories[k].holding_date

\* a reconstructed stock with logged distributions, one of whose lots was
\* bought on a day the provider lists a distribution for
C2_Witness ==
    \E i \in 1..Len(record) :
        /\ Reconstructed(i)
        /\ record[i].earning_events # <<>>
        /\ \E k \in 1..Len(record[i].buying_histories) :
               \E m \in 1..Len(DividendHistory[record[i].stock_no]) :
                   DividendHistory[record[i].stock_no][m]
                       .CashExDividendTradingDate
                   = Strftime(record[i].buying_histories[k].holding_date)

----------------------------------------------------------------------------
(* C3 *)

\* the state a recalculation leaves, as far as recalculation reads or writes
CalcState(rec, pc, erows, srows, tree) ==
    [record |-> rec, pc |-> pc, earning_rows |-> erows,
     statistic_rows |-> srows, tree_obj |-> tree]

AfterCalc(st, dn) ==
    LET c == CalculateEarningResult(st.record, st.pc, dn, st.earning_rows,
                                    st.statistic_rows, st.tree_obj)
    IN CalcState(c.record, c.pc, c.earning_rows, c.statistic_rows, c.tree_obj)

\* C3: from every state, against the same provider, a second recalculation
\* right after a first leaves every stock's current_holding, earning_events
\* and cash_earning (and the tables) as the first left them.
C3_RecalculateIdempotent ==
    \A dn \in CalcFailures :
        LET st == CalcState(record, PriceLookups(price_cache, answered),
                            earning_rows, statistic_rows, tree_obj)
        IN AfterCalc(AfterCalc(st, dn), dn) = AfterCalc(st, dn)

\* a recalculation has just succeeded and logged distributions, and one more
\* changes nothing
C3_Witness ==
    /\ last.op = "calculate_earning"
    /\ last.err = "none"
    /\ \E i \in 1..Len(record) : Len(record[i].earning_events) >= 2
    /\ LET st == CalcState(record, PriceLookups(price_cache, answered),
                           earning_rows, statistic_rows, tree_obj)
       IN AfterCalc(st, Up) = st

----------------------------------------------------------------------------
(* C4 *)

\* C4: a recalculation that meets a stock without lots, the provider
\* answering, does not raise on it and leaves it with a zero holding and no
\* logged distributions.
C4_ZeroLotsSkipped ==
    (last.op = "calculate_earning" /\ last.err # "GatewayUnavailable") =>
        \A i \in 1..Len(record) :
            (Len(record[i].buying_histories) = 0
             /\ (last.at = 0 \/ last.at >= i)) =>
                /\ last.at # i
                /\ record[i].current_holding = StockHolding(0, 0)
                /\ record[i].earning_events = <<>>

----------------------------------------------------------------------------
(* C5 *)

\* the table row of a lot entered with the form f, were the quantity the
\* entered number of lots times 1000
RowOfForm(f, quantity) ==
    [stock_no |-> f.stock_no, stock_name |-> AllStockInfo[f.stock_no],
     hold_date |-> ParseDate(f.hold_date), quantity |-> quantity,
     avg_price |-> f.avg_price]

\* C5: every successful add_stock adds exactly one row to the rows of
\* gen_holding_table_rows, behind the rows of the same stock and with the
\* other rows kept, and the row carries the stock number, date and price
\* entered and the entered quantity times 1000.
C5_RowsCarryTheInputs ==
    [][ \A f \in FormInputs, dn \in {Up, <<"info">>} :
          ( last'.op = "add_stock" /\ last'.err = "none"
            /\ add_stock(f.stock_no, f.hold_date, f.quantity, f.avg_price, dn)
          ) =>
              LET old == gen_holding_table_rows(record)
                  new == gen_holding_table_rows(record')
                  k == KeyIndex(record', f.stock_no)
                  at == SumSeq([i \in 1..k |->
                                   Len(record'[i].buying_histories)])
              IN /\ holding_rows' = new
                 /\ Len(new) = Len(old) + 1
                 /\ \A j \in 1..Len(new) :
                        /\ j < at => new[j] = old[j]
                        /\ j > at => new[j] = old[j - 1]
                 /\ 10 * new[at].quantity = f.quantity
                 /\ new[at] = RowOfForm(f, new[at].quantity) ]_vars

----------------------------------------------------------------------------
(* C6 *)

\* the <<stock_no, date, quantity, avg_price>> of every lot of a ledger
LotTuples(rec) ==
    LET rows == gen_holding_table_rows(rec)
    IN [j \in 1..Len(rows) |->
           <<rows[j].stock_no, rows[j].hold_date, rows[j].quantity,
             rows[j].avg_price>>]

SameBag(a, b) ==
    \A t \in {a[j] : j \in 1..Len(a)} \cup {b[j] : j \in 1..Len(b)} :
        Cardinality({j \in 1..Len(a) : a[j] = t})
        = Cardinality({j \in 1..Len(b) : b[j] = t})

\* the ledger an upload of the export of rec makes of an empty ledger
Reimported(rec, nc, lax) ==
    LoadRows(<<>>, nc, <<>>, write_history(rec), Up, lax)

\* C6: the export of every ledger, uploaded into an empty ledger, is taken
\* whole and gives the lots of the ledger back, as a multiset of
\* <<stock_no, date, quantity, avg_price>>.
C6_ExportImportRoundTrip ==
    LET l == Reimported(record, NameLookups(name_cache, answered), lax_int)
    IN /\ l.err = "none"
       /\ SameBag(LotTuples(l.record), LotTuples(record))

----------------------------------------------------------------------------
(* C7 *)

\* record[i] holds what its lots and its logged distributions amount to, at
\* the cached latest price
Rebuilt(r, pc) ==
    /\ r.current_holding.quantity =
           total_buying_quantity(r)
           + StockIncrements(r, Len(r.earning_events))
    /\ r.cash_earning = CashIncrements(r, Len(r.earning_events))
    /\ Cached(pc, r.stock_no)
    /\ r.current_holding.avg_price = CacheGet(pc, r.stock_no)

IsReset(r) ==
    /\ r.current_holding = StockHolding(0, 0)
    /\ r.earning_events = <<>>
    /\ r.cash_earning = 0

----------------------------------------------------------------------------
(* C8 *)

\* C8: an add_stock or a load_history that raises leaves the ledger as it
\* was: no stock created, no lot added.
C8_FailedActionChangesNothing ==
    [][ (last'.op \in {"add_stock", "load_history"} /\ last'.err # "none")
        => record' = record ]_vars

----------------------------------------------------------------------------
(* C9 *)

\* C9: after a reconstruction every distribution the provider lists for the
\* stock from its earliest purchase date on and before today is logged
\* exactly once.
C9_EveryDistributionOnce ==
    \A i \in 1..Len(record) :
        (Reconstructed(i) /\ record[i].buying_histories # <<>>) =>
            LET r == record[i]
                hist == DividendHistory[r.stock_no]
                earliest == Strftime(find_earliest_date(r.buying_histories))
            IN \A m \in 1..Len(hist) :
                   LET d == hist[m].CashExDividendTradingDate
                   IN (IsDateStr(d) /\ ~StrLt(d, earliest)
                       /\ StrLt(d, Strftime(Today))) =>
                          Cardinality({j \in 1..Len(r.earning_events) :
                              r.earning_events[j].dividend_date = ParseDate(d)})
                          = Cardinality({n \in 1..Len(hist) :
                              hist[n].CashExDividendTradingDate = d})

----------------------------------------------------------------------------
(* C10 *)

\* C10: gen_statistic_table_rows raises ZeroDivisionError exactly when the
\* buying prices of all stocks sum to zero and gives the earning rate
\* otherwise; a recalculation of such a portfolio, the provider answering,
\* fails with that error after every stock is rebuilt and the earning rows
\* are replaced, and leaves the statistics row and the event tree.
C10_ZeroCostBasisRaisesLast ==
    [][ \A dn \in CalcFailures :
          (last'.op = "calculate_earning" /\ calculate_earning(dn)) =>
              LET cost == SumSeq([i \in 1..Len(record) |->
                                     total_buying_price(record[i])])
                  st == gen_statistic_table_rows(record')
              IN /\ (st.err = "ZeroDivisionError") <=> (cost = 0)
                 /\ (cost # 0 /\ last'.err = "none") =>
                        statistic_rows'[1].total_earning_rate =
                            Append(Fmt2(RoundDiv(
                                10000 * SumSeq([i \in 1..Len(record') |->
                                                   total_earning(record'[i])]),
                                cost)), Percent)
                 /\ (cost = 0 /\ last'.err # "GatewayUnavailable") =>
                        /\ last'.err = "ZeroDivisionError"
                        /\ earning_rows' = gen_earning_table_rows(record')
                        /\ \A i \in 1..Len(record) :
                               record'[i].buying_histories # <<>> =>
                                   Rebuilt(record'[i], price_cache')
                        /\ UNCHANGED <<statistic_rows, tree_obj>> ]_vars

----------------------------------------------------------------------------
(* C11 *)

\* record[i] has lots and the last action, a recalculation, looked its price
\* up for each of them
PriceLookedUp(i) ==
    /\ Reconstructed(i)
    /\ record[i].buying_histories # <<>>

\* C11: over every sequence of add_stock, load_history, calculate_earning
\* and init_data the provider answers at most one query for the stock table
\* and at most one for the price of each stock; no step, init_data
\* included, takes an entry out of a cache or changes one; a lookup that
\* fails leaves no entry, and the next lookup the provider answers makes
\* one; every stock shows the name the cache holds, and every stock a
\* recalculation went through shows the price the cache held first, whatever
\* the provider reports by then.
C11_LookupsMemoized ==
    [][ /\ \A q \in Queries : answered'[q] <= 1
        /\ answered'[StockInfoQuery] = 1 <=> name_cache'.info
        /\ \A s \in Ids : answered'[s] = 1 <=> Cached(price_cache', s)
        /\ name_cache.info => name_cache'.info
        /\ name_cache.names \subseteq name_cache'.names
        /\ price_cache \subseteq price_cache'
        /\ \A s \in Ids :
               /\ Cardinality({e \in price_cache' : e[1] = s}) <= 1
               /\ Cardinality({e \in name_cache'.names : e[1] = s}) <= 1
        /\ \A i \in 1..Len(record') :
               /\ Cached(name_cache'.names, record'[i].stock_no)
               /\ record'[i].stock_name =
                      CacheGet(name_cache'.names, record'[i].stock_no)
        /\ \A i \in 1..Len(record') :
               PriceLookedUp(i)' =>
                   LET s == record'[i].stock_no
                       price == record'[i].current_holding.avg_price
                   IN /\ Cached(price_cache', s)
                      /\ price = CacheGet(price_cache', s)
                      /\ Cached(price_cache, s) =>
                             price = CacheGet(price_cache, s)
        /\ \A dn \in CalcFailures, s \in Ids :
               ( /\ dn = <<"price", s>>
                 /\ last'.err = "GatewayUnavailable"
                 /\ ~Cached(price_cache, s)
                 /\ calculate_earning(dn) ) =>
                   /\ ~Cached(price_cache', s)
                   /\ answered'[s] = 0
        /\ ( last'.op \in {"add_stock", "load_history"}
             /\ last'.err = "GatewayUnavailable" ) =>
               /\ ~name_cache'.info
               /\ answered'[StockInfoQuery] = 0
               /\ name_cache' = name_cache ]_vars

\* a recalculation has gone through two stocks whose prices the provider
\* answered in different recalculations, one at the moved close and one at
\* the other: one of the two is shown at the cached price, not at the close
\* of the last recalculation, and each price was asked for once
C11_Witness ==
    /\ last.op = "calculate_earning"
    /\ last.err = "none"
    /\ Len(record) = 2
    /\ \A i \in 1..2 : PriceLookedUp(i)
    /\ price_cache = {<<"2330", Close("2330", Moved)>>,
                      <<"0050", Close("0050", Up)>>}
    /\ \A i \in 1..2 :
           record[i].current_holding.avg_price =
               CacheGet(price_cache, record[i].stock_no)
    /\ \A q \in Queries : answered[q] = 1

====
